---------------------------- MODULE Spec2Model ----------------------------
(***************************************************************************)
(* ThreadingLib: thr::JobManager (src/src/jobmanager.cpp), thr::Thread     *)
(* (src/src/thread.cpp) and thr::AbstractJob (src/src/abstractjob.cpp) as  *)
(* a state machine.                                                        *)
(*                                                                         *)
(* Job table indices are the 0-based indices of the C++ code; the job with *)
(* index i is m_vspJobs[i + 1] here.  Workers are numbered 1..n in the     *)
(* order of m_vThreads.                                                    *)
(*                                                                         *)
(* The operations that take m_mutex (appendJob, clear, addThreads, stop,   *)
(* handleJobFinished up to its unlock) are one atomic step each.  start()  *)
(* and setThreads() take no mutex; they run on the manager's thread, as    *)
(* does the handleJobFinished slot (a queued connection), so they are      *)
(* atomic with respect to each other.  appendJob, clear, addThreads and    *)
(* stop may come from any thread.                                          *)
(***************************************************************************)
EXTENDS Integers, Sequences, FiniteSets

\* ------------------------------------------------------------ bounds
MaxJobs == 3        \* jobs created in a behaviour (appended + spawned)
MaxThreads == 3     \* workers in m_vThreads
MaxDeps == 1        \* length of a dependency list given to a job
MaxSpawn == 1       \* jobs one job returns from nextSpawnedJob()
MaxAllowed == 0     \* largest allowed-errors budget
MaxStarts == 2      \* calls of start() that begin a run, in a behaviour
MaxSpawned == 2     \* jobs one job returns from nextSpawnedJob() in SpawnSpec
MaxQueued == 4      \* jobs in the table in OrderSpec
MaxSessions == 2         \* largest sessionCount() of a session manager
MaxSessionJobs == 2      \* jobs initNextSession() puts into one session
MaxSessionStarts == 2    \* calls of AbstractSessionManager::start() that go on
MaxSessionThreads == 2   \* workers of the job manager of a session manager
MaxSessionInits == 3     \* calls of initNextSession() after one start()
MaxSessionBatch == 4     \* jobs of a session that has more jobs than workers
MaxSubJobs == 3          \* jobs appended to a JobQueue
MaxErrorCode == 1        \* error codes a job's process() reports: -MaxErrorCode..MaxErrorCode

VARIABLES
    m_vspJobs,          \* job table: sequence of job records
    m_quWaiting,        \* queue of job indices waiting to be started
    m_vThreads,         \* workers: sequence of thread records
    m_quIdle,           \* queue of idle workers
    m_iStarted, m_iRunning, m_iFinished, m_iErrors,
    m_iAllowedErrors,
    m_bStop,
    m_bReportJobFinish,
    m_eStatus,
    m_eError,
    pc,                 \* manager thread: "idle", "emitFinished" between
                        \* locker.unlock() and emit signalFinished(), or
                        \* "start" inside the for loop of start()
    crashed,            \* an out-of-range access of m_vspJobs ended the program
    emitted,            \* signals emitted by the last step, in order
    nSigFinished, nSigStopped, nSigError,   \* terminal signals since the last start()
    nFailed,            \* job bodies that returned with an error since the last start()
    nStarts,            \* calls of start() by the caller of a job manager that
                        \* began a run so far
    iLeft,              \* start() in steps: iterations its for loop has left
    nCreated,           \* jobs created so far: given to appendJob by the caller of a
                        \* job manager, or spawned
    \* AbstractSessionManager around the job manager (m_jm)
    sm_eStatus,         \* AbstractSessionManager::m_eStatus
    sm_iSessionIndex,   \* AbstractSessionManager::m_iSessionIndex
    sm_iFinished,       \* AbstractSessionManager::m_iFinished
    sm_nSessions,       \* what the derived class returns from sessionCount()
    sm_timers,          \* QTimer::singleShot(.., startNextSession) not yet fired
    sm_emitted,         \* session manager signals emitted by the last step
    sm_log              \* since the last start(): the value it returned, the
                        \* session indices given to initNextSession(), the jobs
                        \* appended, the signalFinished count, stop() called
    ,
    \* a JobQueue (the job m_pQueue of the unit tests) and the thread in exec()
    m_pQueue            \* its m_bStop, m_iError, m_vJobs, m_iCurrent; pc: where
                        \* exec() is; ran: the sub-jobs whose process() was
                        \* called, in order; signal: what exec() emitted

SessionVars == <<sm_eStatus, sm_iSessionIndex, sm_iFinished, sm_nSessions,
                 sm_timers, sm_emitted, sm_log>>

QueueVars == <<m_pQueue>>

vars == <<m_vspJobs, m_quWaiting, m_vThreads, m_quIdle, m_iStarted, m_iRunning,
          m_iFinished, m_iErrors, m_iAllowedErrors, m_bStop, m_bReportJobFinish,
          m_eStatus, m_eError, pc, crashed, emitted, nSigFinished, nSigStopped,
          nSigError, nFailed, nStarts, iLeft, nCreated, SessionVars, QueueVars>>

\* ------------------------------------------------------------ helpers
Range(q) == {q[k] : k \in 1..Len(q)}

RECURSIVE CountSig(_, _)
CountSig(ev, sig) ==
    IF ev = <<>> THEN 0
    ELSE (IF Head(ev).sig = sig THEN 1 ELSE 0) + CountSig(Tail(ev), sig)

\* The manager as one record, so that the methods are operators on it.
Manager ==
    [m_vspJobs |-> m_vspJobs, m_quWaiting |-> m_quWaiting, m_vThreads |-> m_vThreads,
     m_quIdle |-> m_quIdle, m_iStarted |-> m_iStarted, m_iRunning |-> m_iRunning,
     m_iFinished |-> m_iFinished, m_iErrors |-> m_iErrors,
     m_iAllowedErrors |-> m_iAllowedErrors, m_bStop |-> m_bStop,
     m_bReportJobFinish |-> m_bReportJobFinish,
     m_eStatus |-> m_eStatus, m_eError |-> m_eError, emitted |-> <<>>,
     m_mutex |-> FALSE]

\* Workers that hold a job: started, executing, or finished and not yet handled.
BusyThreads(s) == {t \in 1..Len(s.m_vThreads) : s.m_vThreads[t].st # "idle"}

\* emit <sig>(arg): the signal with the state it is emitted in; locked says
\* that the emitting thread holds m_mutex.
Emit(s, sig, arg) ==
    [s EXCEPT !.emitted = Append(@, [sig |-> sig, arg |-> arg,
                                     running |-> s.m_iRunning,
                                     busy |-> Cardinality(BusyThreads(s)),
                                     status |-> s.m_eStatus,
                                     locked |-> s.m_mutex])]

\* ------------------------------------------------------------ AbstractJob
\* AbstractJob::AbstractJob plus the behaviour of the derived class:
\* block: canStart() is overridden to return false (TestJobCannotStart);
\* spawn: the number of jobs nextSpawnedJob() still returns (TestJobSpawned).
\* dependsOn keeps the dependency list as given (m_vspDependency is pruned);
\* nAssigned counts the assignments to a worker; done and reported say that the
\* completion was handled and reported by signalJobFinished; depsAtStart says
\* whether, when the job was assigned, every job of dependsOn had finished and
\* its completion had been handled (and reported, when reports are on).
\* A dependency is the table index of the job referred to, a job appended
\* before the dependent job.
\* parent and ord say which job's nextSpawnedJob() returned this job and as
\* which of its calls (parent -1: the job was given to appendJob).
NewJob(deps, block, spawn) ==
    [m_bStop |-> FALSE, block |-> block, spawn |-> spawn, m_iError |-> 0,
     m_bFinished |-> FALSE, m_bSpawned |-> FALSE, m_vspDependency |-> deps,
     dependsOn |-> deps, nAssigned |-> 0, done |-> FALSE, reported |-> FALSE,
     depsAtStart |-> TRUE, parent |-> -1, ord |-> 0]

\* isFinished() of the job a dependency refers to
DepFinished(s, d) == d < Len(s.m_vspJobs) /\ s.m_vspJobs[d + 1].m_bFinished

\* job d is in the table, finished, and its completion was handled and reported
DepReported(s, d) ==
    /\ DepFinished(s, d)
    /\ s.m_vspJobs[d + 1].done
    /\ s.m_bReportJobFinish => s.m_vspJobs[d + 1].reported

\* the loop of AbstractJob::canStart: drop the finished dependencies at the front
RECURSIVE PruneDeps(_, _)
PruneDeps(s, deps) ==
    IF deps # <<>> /\ DepFinished(s, Head(deps))
    THEN PruneDeps(s, Tail(deps))
    ELSE deps

\* the state after job i's canStart(): its dependency list is pruned
canStartState(s, i) ==
    IF s.m_vspJobs[i + 1].block THEN s
    ELSE [s EXCEPT !.m_vspJobs[i + 1].m_vspDependency = PruneDeps(s, @)]

\* canStart() that does not look at the dependency list
canStart_IgnoresDependencies(s, i) == ~s.m_vspJobs[i + 1].block

\* the value job i's canStart() returns
canStart(s, i) ==
    /\ ~s.m_vspJobs[i + 1].block
    /\ PruneDeps(s, s.m_vspJobs[i + 1].m_vspDependency) = <<>>

\* cleanup() that marks a failed or stopped job finished as well
cleanup_AlwaysFinished(job) == [job EXCEPT !.m_bFinished = TRUE]

\* AbstractJob::cleanup
cleanup(job) ==
    IF job.m_iError = 0 /\ job.m_bStop = FALSE
    THEN [job EXCEPT !.m_bFinished = TRUE]
    ELSE job

\* an exec() that tests the stop flag before the error code
execSignal_StopFirst(job) ==
    IF job.m_bStop THEN "AbstractJob::signalStopped"
    ELSE IF job.m_iError # 0 THEN "AbstractJob::signalError"
    ELSE "AbstractJob::signalFinished"

\* the signal AbstractJob::exec emits after process() and release()
execSignal(job) ==
    IF job.m_iError # 0 THEN "AbstractJob::signalError"
    ELSE IF job.m_bStop THEN "AbstractJob::signalStopped"
    ELSE "AbstractJob::signalFinished"

\* ------------------------------------------------------------ Thread
\* Thread::Thread
NewThread == [m_iJobIndex |-> -1, st |-> "idle"]

\* Thread::start: bind the job and start the thread
ThreadStart(thr, iJobIndex) == [thr EXCEPT !.m_iJobIndex = iJobIndex, !.st = "started"]

\* appendJobUnsafe that does not put the job into the waiting queue
appendJobUnsafe_NotQueued(s, job) == [s EXCEPT !.m_vspJobs = Append(@, job)]

\* ------------------------------------------------------------ JobManager
\* JobManager::appendJobUnsafe
appendJobUnsafe(s, job) ==
    [s EXCEPT !.m_quWaiting = Append(@, Len(s.m_vspJobs)),
              !.m_vspJobs = Append(@, job)]

\* handleError() that does not wait for the running jobs
handleErrorState_IgnoresRunning(s) ==
    IF s.m_eError # "jmeNoError"
    THEN Emit([s EXCEPT !.m_eStatus = "sError"], "signalError", s.m_eError)
    ELSE s

\* JobManager::handleError: the state after the call
handleErrorState(s) ==
    IF s.m_eError # "jmeNoError" /\ s.m_iRunning = 0
    THEN Emit([s EXCEPT !.m_eStatus = "sError"], "signalError", s.m_eError)
    ELSE s

\* JobManager::handleError: the value returned
handleError(s) == s.m_eError # "jmeNoError"

\* The for loop of JobManager::startNext with n iterations left: the first
\* waiting job that can start is given to worker thr; a job that cannot is
\* moved to the tail of the queue.
RECURSIVE scanWaiting(_, _, _)
scanWaiting(s, thr, n) ==
    IF n = 0
    THEN LET s1 == IF s.m_iRunning = 0
                   THEN [s EXCEPT !.m_eError = "jmeNoJobReady"]
                   ELSE s
         IN  [s1 EXCEPT !.m_quIdle = Append(@, thr)]
    ELSE LET front == Head(s.m_quWaiting)
             s1 == canStartState(s, front)
         IN  IF canStart(s, front)
             THEN [s1 EXCEPT !.m_quWaiting = Tail(@),
                             !.m_vThreads[thr] = ThreadStart(@, front),
                             !.m_vspJobs[front + 1].nAssigned = @ + 1,
                             !.m_vspJobs[front + 1].depsAtStart =
                                 \A k \in 1..Len(s.m_vspJobs[front + 1].dependsOn) :
                                     DepReported(s, s.m_vspJobs[front + 1].dependsOn[k]),
                             !.m_iStarted = @ + 1,
                             !.m_iRunning = @ + 1]
             ELSE scanWaiting([s1 EXCEPT !.m_quWaiting = Append(Tail(@), front)],
                              thr, n - 1)

\* JobManager::startNext
startNext(s) ==
    LET thr == Head(s.m_quIdle)
        s1 == [s EXCEPT !.m_quIdle = Tail(@)]
    IN  IF s1.m_iStarted < Len(s1.m_vspJobs)
        THEN scanWaiting(s1, thr, Len(s1.m_quWaiting))
        ELSE [s1 EXCEPT !.m_quIdle = Append(@, thr)]

\* an error budget that tolerates one error more
TooManyErrors_OneMore(s) ==
    s.m_iAllowedErrors >= 0 /\ s.m_iErrors > s.m_iAllowedErrors + 1

\* the error budget test of JobManager::checkNext
TooManyErrors(s) == s.m_iAllowedErrors >= 0 /\ s.m_iErrors > s.m_iAllowedErrors

\* the test of JobManager::checkNext for jobs whose completion is not handled
JobsLeft(s) == s.m_iFinished < Len(s.m_vspJobs)

\* JobManager::checkNext
checkNext(s) ==
    LET s1 == IF TooManyErrors(s)
              THEN [s EXCEPT !.m_eError = "jmeTooManyErrors"]
              ELSE s
    IN  IF handleError(s1) THEN handleErrorState(s1)
        ELSE IF s1.m_bStop
        THEN IF s1.m_iRunning = 0
             THEN Emit([s1 EXCEPT !.m_eStatus = "sStopped"], "signalStopped", "")
             ELSE s1
        ELSE IF JobsLeft(s1)
        THEN handleErrorState(startNext(s1))
        ELSE [s1 EXCEPT !.m_eStatus = "sFinished"]

RECURSIVE Repeat(_, _)
\* for (i = 0; i < n; ++i) checkNext();
Repeat(s, n) == IF n = 0 THEN s ELSE Repeat(checkNext(s), n - 1)

Min(a, b) == IF a < b THEN a ELSE b
Max(a, b) == IF a > b THEN a ELSE b

\* the jobs of the table that job iInd's nextSpawnedJob() returned
SpawnedBy(s, iInd) == {j \in 1..Len(s.m_vspJobs) : s.m_vspJobs[j].parent = iInd}

\* the drain of nextSpawnedJob() in handleJobFinished: job iInd returns k more
\* jobs, each gets setSpawned() and appendJobUnsafe before the next call
RECURSIVE spawnJobs(_, _, _)
spawnJobs(s, iInd, k) ==
    IF k = 0 THEN s
    ELSE spawnJobs(appendJobUnsafe(s, [NewJob(<<>>, FALSE, 0)
                                         EXCEPT !.m_bSpawned = TRUE,
                                                !.parent = iInd,
                                                !.ord = Cardinality(SpawnedBy(s, iInd)) + 1]),
                   iInd, k - 1)

\* a drain that puts the returned jobs into the waiting queue last first
drainSpawned_LastFirst(s, iInd) ==
    LET r == [spawnJobs(s, iInd, s.m_vspJobs[iInd + 1].spawn)
                 EXCEPT !.m_vspJobs[iInd + 1].spawn = 0]
        n == Len(s.m_quWaiting)
        m == Len(r.m_quWaiting)
    IN  [r EXCEPT !.m_quWaiting = [k \in 1..m |-> IF k <= n
                                                  THEN r.m_quWaiting[k]
                                                  ELSE r.m_quWaiting[m + n + 1 - k]]]

\* the while loop of JobManager::handleJobFinished over the jobs that job
\* iInd's nextSpawnedJob() returns, until it returns null
drainSpawned(s, iInd) ==
    [spawnJobs(s, iInd, s.m_vspJobs[iInd + 1].spawn)
        EXCEPT !.m_vspJobs[iInd + 1].spawn = 0]

\* JobManager::handleJobFinished for worker thr, from QMutexLocker
\* locker(&m_mutex) up to the unlock before emit signalFinished()
handleJobFinished(s, thr) ==
    LET iInd == s.m_vThreads[thr].m_iJobIndex
        s1 == [s EXCEPT !.m_mutex = TRUE, !.m_iFinished = @ + 1]
        s2 == drainSpawned(s1, iInd)
        s3 == [s2 EXCEPT !.m_vspJobs[iInd + 1] = [cleanup(@) EXCEPT !.done = TRUE],
                         !.m_vThreads[thr].st = "idle",
                         !.m_quIdle = Append(@, thr),
                         !.m_iRunning = @ - 1]
        s4 == IF s3.m_vspJobs[iInd + 1].m_iError # 0
              THEN [s3 EXCEPT !.m_iErrors = @ + 1]
              ELSE s3
        s5 == IF s4.m_bReportJobFinish
              THEN [Emit(s4, "signalJobFinished", iInd)
                       EXCEPT !.m_vspJobs[iInd + 1].reported = TRUE]
              ELSE s4
        iN == Max(1, Min(Len(s5.m_quWaiting), Len(s5.m_quIdle)))
    IN  [Repeat(s5, iN) EXCEPT !.m_mutex = FALSE]

\* the state of the job manager that a step leaves
BecomesJm(s) ==
    /\ m_vspJobs' = s.m_vspJobs
    /\ m_quWaiting' = s.m_quWaiting
    /\ m_vThreads' = s.m_vThreads
    /\ m_quIdle' = s.m_quIdle
    /\ m_iStarted' = s.m_iStarted
    /\ m_iRunning' = s.m_iRunning
    /\ m_iFinished' = s.m_iFinished
    /\ m_iErrors' = s.m_iErrors
    /\ m_iAllowedErrors' = s.m_iAllowedErrors
    /\ m_bStop' = s.m_bStop
    /\ m_bReportJobFinish' = s.m_bReportJobFinish
    /\ m_eStatus' = s.m_eStatus
    /\ m_eError' = s.m_eError
    /\ emitted' = s.emitted

\* the state a step of the job manager leaves: a job manager that is used on
\* its own has no session manager around it
Becomes(s) ==
    /\ BecomesJm(s)
    /\ nCreated' = nCreated + (IF Len(s.m_vspJobs) > Len(m_vspJobs)
                               THEN Len(s.m_vspJobs) - Len(m_vspJobs) ELSE 0)
    /\ UNCHANGED <<SessionVars, QueueVars>>

Counted(s) ==
    /\ nSigFinished' = nSigFinished + CountSig(s.emitted, "signalFinished")
    /\ nSigStopped' = nSigStopped + CountSig(s.emitted, "signalStopped")
    /\ nSigError' = nSigError + CountSig(s.emitted, "signalError")

\* ------------------------------------------------------------ JobQueue
\* JobQueue::JobQueue on top of AbstractJob::AbstractJob
NewJobQueue ==
    [m_bStop |-> FALSE, pc |-> "new", m_iError |-> 0, m_vJobs |-> <<>>,
     m_iCurrent |-> -1, ran |-> <<>>, signal |-> "none"]

\* a job given to JobQueue::append: code is the error code its process()
\* reports (0: it reports none)
NewSubJob(code) == [m_iError |-> 0, code |-> code]

\* JobQueue::append
queueAppend(q, job) == [q EXCEPT !.m_vJobs = Append(@, job)]

\* AbstractJob::exec up to the first test of the for loop of JobQueue::process
queueExecBegin(q) ==
    [q EXCEPT !.m_bStop = FALSE, !.m_iError = 0, !.m_iCurrent = 0, !.pc = "loop"]

\* the test of the for loop of JobQueue::process
queueLoopTest(q) == q.m_iCurrent < Len(q.m_vJobs) /\ q.m_iError = 0

\* the test of JobQueue::process for the error code of the job it has run
queueSubJobFailed(job) == job.m_iError > 0

\* one iteration of the for loop of JobQueue::process, or the exit of the loop
queueIterate(q) ==
    IF ~queueLoopTest(q) THEN [q EXCEPT !.pc = "processed"]
    ELSE IF q.m_bStop THEN [q EXCEPT !.pc = "processed"]
    ELSE LET i == q.m_iCurrent + 1
             job == [q.m_vJobs[i] EXCEPT !.m_iError = IF q.m_vJobs[i].code # 0
                                                      THEN q.m_vJobs[i].code
                                                      ELSE @]
             q1 == [q EXCEPT !.m_vJobs[i] = job, !.ran = Append(@, q.m_iCurrent)]
             q2 == IF queueSubJobFailed(job)
                   THEN [q1 EXCEPT !.m_iError = job.m_iError]
                   ELSE q1
         IN  [q2 EXCEPT !.m_iCurrent = @ + 1]

\* AbstractJob::exec after process() has returned
queueExecEnd(q) == [q EXCEPT !.pc = "done", !.signal = execSignal(q)]

\* AbstractJob::stop
queueStop(q) == [q EXCEPT !.m_bStop = TRUE]

\* ------------------------------------------------------------ initial state
\* JobManager::JobManager(iThreads), then setAllowedErrors and
\* setReportJobFinish before the first job is appended
\* JobManager::JobManager and the setters called before the first use
InitJobManager ==
    /\ m_vspJobs = <<>>
    /\ m_quWaiting = <<>>
    /\ \E n \in 1..MaxThreads :
         /\ m_vThreads = [t \in 1..n |-> NewThread]
         /\ m_quIdle = [t \in 1..n |-> t]
    /\ m_iStarted = 0
    /\ m_iRunning = 0
    /\ m_iFinished = 0
    /\ m_iErrors \in 0..MaxJobs     \* not initialised by the constructor
    /\ m_iAllowedErrors \in -1..MaxAllowed
    /\ m_bStop = FALSE
    /\ m_bReportJobFinish \in BOOLEAN
    /\ m_eStatus = "sFinished"
    /\ m_eError = "jmeNoError"
    /\ pc = "idle"
    /\ crashed = FALSE
    /\ emitted = <<>>
    /\ nSigFinished = 0
    /\ nSigStopped = 0
    /\ nSigError = 0
    /\ nFailed = 0
    /\ nStarts = 0
    /\ iLeft = 0
    /\ nCreated = 0

\* what sm_log holds when no start() of a session manager has been called
NoSessionLog ==
    [nSigFinished |-> 0, ret |-> "none", inits |-> <<>>, jobs |-> 0, stopped |-> FALSE,
     starts |-> 0]

\* a job manager used on its own
Init ==
    /\ InitJobManager
    /\ sm_eStatus = "sFinished"
    /\ sm_iSessionIndex = -1
    /\ sm_iFinished = 0
    /\ sm_nSessions = 0
    /\ sm_timers = 0
    /\ sm_emitted = <<>>
    /\ sm_log = NoSessionLog
    /\ m_pQueue = NewJobQueue


\* ------------------------------------------------------------ operations
\* the jobs the table can still grow by: those nextSpawnedJob() will return
RECURSIVE ToSpawn(_)
ToSpawn(js) == IF js = <<>> THEN 0 ELSE Head(js).spawn + ToSpawn(Tail(js))

\* the dependency lists a caller gives to the job it appends at index n:
\* at most MaxDeps jobs appended before it, in any order
RECURSIVE DepLists(_, _)
DepLists(n, len) ==
    IF len = 0 THEN {<<>>}
    ELSE DepLists(n, len - 1) \cup
         {Append(d, i) : d \in {x \in DepLists(n, len - 1) : Len(x) = len - 1},
                         i \in 0..(n - 1)}

\* the jobs a caller appends at index n: a job with dependencies (TestJob with
\* addDependency), a job that can never start (TestJobCannotStart), and a job
\* that spawns jobs when it has finished (TestJobSpawned)
JobKinds(n) ==
    {NewJob(d, FALSE, 0) : d \in DepLists(n, MaxDeps)} \cup
    {NewJob(<<>>, TRUE, 0)} \cup
    {NewJob(<<>>, FALSE, k) : k \in 1..MaxSpawn}

\* JobManager::appendJob, from any thread
AppendJob(job) ==
    /\ ~crashed
    /\ nCreated + ToSpawn(m_vspJobs) + 1 + job.spawn <= MaxJobs
    /\ Becomes(appendJobUnsafe(Manager, job))
    /\ UNCHANGED <<pc, crashed, nSigFinished, nSigStopped, nSigError, nFailed, nStarts, iLeft>>

\* JobManager::clear, from any thread.  Its callers call it on a manager that
\* is not running: AbstractSessionManager before it fills a session, the unit
\* tests after a run has ended.
clear(s) ==
    [s EXCEPT !.m_vspJobs = <<>>, !.m_quWaiting = <<>>, !.m_iStarted = 0,
              !.m_iRunning = 0, !.m_bStop = FALSE, !.m_eError = "jmeNoError"]

Clear ==
    /\ ~crashed
    /\ m_eStatus # "sRunning"
    /\ Becomes(clear(Manager))
    /\ UNCHANGED <<pc, crashed, nSigFinished, nSigStopped, nSigError, nFailed, nStarts, iLeft>>

\* JobManager::allocateThreads
allocateThreads(s, iT) ==
    [s EXCEPT !.m_vThreads = [t \in 1..iT |-> NewThread],
              !.m_quIdle = [t \in 1..iT |-> t]]

\* JobManager::setThreads, on the manager's thread
setThreads(s, iT) == IF s.m_eStatus = "sRunning" THEN s ELSE allocateThreads(s, iT)

SetThreads(iT) ==
    /\ ~crashed
    /\ pc = "idle"
    /\ Becomes(setThreads(Manager, iT))
    /\ UNCHANGED <<pc, crashed, nSigFinished, nSigStopped, nSigError, nFailed, nStarts, iLeft>>

\* an addThreads that only enlarges the pool and dispatches nothing
addThreads_NoDispatch(s, iT) ==
    [s EXCEPT !.m_vThreads = @ \o [k \in 1..iT |-> NewThread],
              !.m_quIdle = @ \o [k \in 1..iT |-> Len(s.m_vThreads) + k]]

\* JobManager::addThreads, from any thread
RECURSIVE addThreads(_, _)
addThreads(s, iT) ==
    IF iT = 0 THEN s
    ELSE LET s1 == [s EXCEPT !.m_vThreads = Append(@, NewThread),
                             !.m_quIdle = Append(@, Len(s.m_vThreads) + 1)]
         IN  addThreads(IF s1.m_eStatus = "sRunning" THEN startNext(s1) ELSE s1, iT - 1)

AddThreads(iT) ==
    /\ ~crashed
    /\ Len(m_vThreads) + iT <= MaxThreads
    /\ Becomes(addThreads(Manager, iT))
    /\ UNCHANGED <<pc, crashed, nSigFinished, nSigStopped, nSigError, nFailed, nStarts, iLeft>>

\* a start() that leaves an empty table without a signal
startEmpty_Silent(s) == [s EXCEPT !.m_eStatus = "sFinished"]

\* JobManager::start when the job table is empty: nothing to do
startEmpty(s) == Emit([s EXCEPT !.m_eStatus = "sFinished"], "signalFinished", "")

\* the for loop of JobManager::start
RECURSIVE startLoop(_, _)
startLoop(s, n) == IF n = 0 THEN s ELSE startLoop(startNext(s), n - 1)

\* start() that puts every job of the table back into the waiting queue
start_RequeuesAll(s) ==
    LET s1 == [s EXCEPT !.m_eStatus = "sRunning", !.m_iErrors = 0, !.m_iStarted = 0,
                        !.m_iFinished = 0, !.m_iRunning = 0, !.m_bStop = FALSE,
                        !.m_eError = "jmeNoError",
                        !.m_quWaiting = [k \in 1..Len(s.m_vspJobs) |-> k - 1]]
    IN  IF Len(s1.m_vspJobs) = 0
        THEN startEmpty(s1)
        ELSE startLoop(s1, Min(Len(s1.m_vThreads), Len(s1.m_vspJobs)))

\* JobManager::start when the status is not sRunning (it returns true)
start(s) ==
    LET s1 == [s EXCEPT !.m_eStatus = "sRunning", !.m_iErrors = 0, !.m_iStarted = 0,
                        !.m_iFinished = 0, !.m_iRunning = 0, !.m_bStop = FALSE,
                        !.m_eError = "jmeNoError"]
    IN  IF Len(s1.m_vspJobs) = 0
        THEN startEmpty(s1)
        ELSE startLoop(s1, Min(Len(s1.m_vThreads), Len(s1.m_vspJobs)))

\* a start() that resets the counters before it looks at the status
startCall_ResetsFirst(s) ==
    IF s.m_eStatus = "sRunning"
    THEN [ret |-> FALSE,
          s |-> [s EXCEPT !.m_iErrors = 0, !.m_iStarted = 0, !.m_iFinished = 0,
                          !.m_iRunning = 0, !.m_bStop = FALSE,
                          !.m_eError = "jmeNoError"]]
    ELSE [ret |-> TRUE, s |-> start(s)]

\* JobManager::start: the value it returns and the state it leaves
startCall(s) ==
    IF s.m_eStatus = "sRunning"
    THEN [ret |-> FALSE, s |-> s]
    ELSE [ret |-> TRUE, s |-> start(s)]

\* JobManager::start, on the manager's thread
Start ==
    /\ ~crashed
    /\ pc = "idle"
    /\ m_eStatus = "sRunning" \/ nStarts < MaxStarts
    /\ IF ~startCall(Manager).ret
       THEN /\ Becomes(startCall(Manager).s)
            /\ UNCHANGED <<nSigFinished, nSigStopped, nSigError, nFailed, nStarts>>
       ELSE LET s == startCall(Manager).s
            IN  /\ Becomes(s)
                /\ nSigFinished' = CountSig(s.emitted, "signalFinished")
                /\ nSigStopped' = 0
                /\ nSigError' = 0
                /\ nFailed' = 0
                /\ nStarts' = nStarts + 1
    /\ UNCHANGED <<pc, crashed, iLeft>>

\* the job indices JobManager::stop reads from the workers
StopIndices(s) ==
    {s.m_vThreads[t].m_iJobIndex : t \in {u \in 1..Len(s.m_vThreads) :
                                            s.m_vThreads[u].m_iJobIndex >= 0}}

\* JobManager::stop with every index it reads inside the job table:
\* AbstractJob::stop for each of them
stop(s) ==
    [s EXCEPT !.m_bStop = TRUE,
              !.m_vspJobs = [i \in 1..Len(s.m_vspJobs) |->
                               IF (i - 1) \in StopIndices(s)
                               THEN [s.m_vspJobs[i] EXCEPT !.m_bStop = TRUE]
                               ELSE s.m_vspJobs[i]]]

\* JobManager::stop, from any thread.  m_vspJobs[jobIndex()] with an index
\* outside the table is undefined: the program ends there, or goes on with
\* no job changed by that access.
Stop ==
    /\ ~crashed
    /\ Becomes(stop(Manager))
    /\ IF \E i \in StopIndices(Manager) : i >= Len(m_vspJobs)
       THEN crashed' \in BOOLEAN
       ELSE crashed' = FALSE
    /\ UNCHANGED <<pc, nSigFinished, nSigStopped, nSigError, nFailed, nStarts, iLeft>>

\* the worker thread has started: AbstractJob::exec resets the stop flag and
\* the error code and calls process()
ExecBegin(t) ==
    /\ ~crashed
    /\ m_vThreads[t].st = "started"
    /\ Becomes([Manager EXCEPT
                  !.m_vThreads[t].st = "exec",
                  !.m_vspJobs[m_vThreads[t].m_iJobIndex + 1].m_bStop = FALSE,
                  !.m_vspJobs[m_vThreads[t].m_iJobIndex + 1].m_iError = 0])
    /\ UNCHANGED <<pc, crashed, nSigFinished, nSigStopped, nSigError, nFailed, nStarts, iLeft>>

\* AbstractJob::exec from the return of process(), which reported error code
\* iErr or none (0): the job emits its signal and the worker quits
execEnd(s, t, iErr) ==
    LET iInd == s.m_vThreads[t].m_iJobIndex
        s1 == [s EXCEPT !.m_vThreads[t].st = "done",
                        !.m_vspJobs[iInd + 1].m_iError = iErr]
    IN  Emit(s1, execSignal(s1.m_vspJobs[iInd + 1]), iInd)

\* process() returns and exec ends; the thread's finished() signal is queued.
\* The job's signal goes to the worker's quit(), not to the manager's
\* receivers: emitted keeps the manager's signals.
ExecEnd(t, iErr) ==
    /\ ~crashed
    /\ m_vThreads[t].st = "exec"
    /\ Becomes([execEnd(Manager, t, iErr) EXCEPT !.emitted = <<>>])
    /\ nFailed' = nFailed + (IF iErr # 0 THEN 1 ELSE 0)
    /\ UNCHANGED <<pc, crashed, nSigFinished, nSigStopped, nSigError, nStarts, iLeft>>

\* the slot JobManager::handleJobFinished for worker t, up to the unlock
HandleJobFinished(t) ==
    /\ ~crashed
    /\ pc = "idle"
    /\ m_vThreads[t].st = "done"
    /\ LET s == handleJobFinished(Manager, t)
       IN  /\ Becomes(s)
           /\ Counted(s)
           /\ pc' = IF s.m_eStatus = "sFinished" THEN "emitFinished" ELSE "idle"
    /\ UNCHANGED <<crashed, nFailed, nStarts, iLeft>>

\* JobManager::handleJobFinished after locker.unlock(): emit signalFinished()
EmitFinished ==
    /\ ~crashed
    /\ pc = "emitFinished"
    /\ LET s == Emit(Manager, "signalFinished", "")
       IN  Becomes(s) /\ Counted(s)
    /\ pc' = "idle"
    /\ UNCHANGED <<crashed, nFailed, nStarts, iLeft>>

Next ==
    \/ \E job \in JobKinds(Len(m_vspJobs)) : AppendJob(job)
    \/ Clear
    \/ \E iT \in 1..MaxThreads : SetThreads(iT)
    \/ \E iT \in 1..MaxThreads : AddThreads(iT)
    \/ Start
    \/ Stop
    \/ \E t \in 1..Len(m_vThreads) : ExecBegin(t)
    \/ \E t \in 1..Len(m_vThreads), iErr \in 0..1 : ExecEnd(t, iErr)
    \/ \E t \in 1..Len(m_vThreads) : HandleJobFinished(t)
    \/ EmitFinished

Spec == Init /\ [][Next]_vars

\* The worker threads run to the end of the job body, the queued finished()
\* signals are delivered to the manager's event loop, and the manager's thread
\* goes on from the unlock to the emit.  The callers' operations are not fair.
FairSpec ==
    /\ Spec
    /\ \A t \in 1..MaxThreads :
         /\ WF_vars(t <= Len(m_vThreads) /\ ExecBegin(t))
         /\ WF_vars(t <= Len(m_vThreads) /\ \E iErr \in 0..1 : ExecEnd(t, iErr))
         /\ WF_vars(t <= Len(m_vThreads) /\ HandleJobFinished(t))
    /\ WF_vars(EmitFinished)

\* ------------------------------------------------------------ start() in steps
\* JobManager::start takes no mutex.  In Spec it is one step: no other thread
\* calls the manager while start() runs.  StartSpec takes it in the steps
\* another thread can come between: the resets and the test for an empty
\* table, then each iteration of the for loop.

\* JobManager::start up to the for loop
startBegin(s) ==
    LET s1 == [s EXCEPT !.m_eStatus = "sRunning", !.m_iErrors = 0, !.m_iStarted = 0,
                        !.m_iFinished = 0, !.m_iRunning = 0, !.m_bStop = FALSE,
                        !.m_eError = "jmeNoError"]
    IN  IF Len(s1.m_vspJobs) = 0
        THEN startEmpty(s1)
        ELSE s1

\* start() is called while the status is not sRunning
StartCall ==
    /\ ~crashed
    /\ pc = "idle"
    /\ m_eStatus # "sRunning"
    /\ nStarts < MaxStarts
    /\ LET s == startBegin(Manager)
       IN  /\ Becomes(s)
           /\ nSigFinished' = CountSig(s.emitted, "signalFinished")
           /\ iLeft' = Min(Len(s.m_vThreads), Len(s.m_vspJobs))
    /\ pc' = IF iLeft' = 0 THEN "idle" ELSE "start"
    /\ nSigStopped' = 0
    /\ nSigError' = 0
    /\ nFailed' = 0
    /\ nStarts' = nStarts + 1
    /\ UNCHANGED crashed

\* one iteration of the for loop of start()
StartStep ==
    /\ ~crashed
    /\ pc = "start"
    /\ Becomes(startNext(Manager))
    /\ iLeft' = iLeft - 1
    /\ pc' = IF iLeft' = 0 THEN "idle" ELSE "start"
    /\ UNCHANGED <<crashed, nSigFinished, nSigStopped, nSigError, nFailed, nStarts>>

NextStart ==
    \/ \E job \in JobKinds(Len(m_vspJobs)) : AppendJob(job)
    \/ StartCall
    \/ StartStep
    \/ \E t \in 1..Len(m_vThreads) : ExecBegin(t)
    \/ \E t \in 1..Len(m_vThreads), iErr \in 0..1 : ExecEnd(t, iErr)
    \/ \E t \in 1..Len(m_vThreads) : HandleJobFinished(t)
    \/ EmitFinished

StartSpec == Init /\ [][NextStart]_vars

\* ------------------------------------------------------------ runs without faults
\* The behaviours in which no job body reports an error, stop() is not called
\* and no job overrides canStart(): every job can start once its
\* dependencies, jobs of the same table, are finished.
NextClean ==
    \/ \E job \in {j \in JobKinds(Len(m_vspJobs)) : ~j.block} : AppendJob(job)
    \/ Clear
    \/ \E iT \in 1..MaxThreads : SetThreads(iT)
    \/ \E iT \in 1..MaxThreads : AddThreads(iT)
    \/ Start
    \/ \E t \in 1..Len(m_vThreads) : ExecBegin(t)
    \/ \E t \in 1..Len(m_vThreads) : ExecEnd(t, 0)
    \/ \E t \in 1..Len(m_vThreads) : HandleJobFinished(t)
    \/ EmitFinished

CleanSpec == Init /\ [][NextClean]_vars

\* ------------------------------------------------------------ jobs that spawn
\* The behaviours over jobs that return up to MaxSpawned jobs from
\* nextSpawnedJob() (TestJobSpawned returns two) and have no dependencies.
SpawnKinds == {NewJob(<<>>, FALSE, k) : k \in 0..MaxSpawned}

NextSpawn ==
    \/ \E job \in SpawnKinds : AppendJob(job)
    \/ Clear
    \/ \E iT \in 1..MaxThreads : SetThreads(iT)
    \/ \E iT \in 1..MaxThreads : AddThreads(iT)
    \/ Start
    \/ Stop
    \/ \E t \in 1..Len(m_vThreads) : ExecBegin(t)
    \/ \E t \in 1..Len(m_vThreads), iErr \in 0..1 : ExecEnd(t, iErr)
    \/ \E t \in 1..Len(m_vThreads) : HandleJobFinished(t)
    \/ EmitFinished

SpawnSpec == Init /\ [][NextSpawn]_vars

\* ------------------------------------------------------------ dispatch order
\* The behaviours over up to MaxQueued jobs that wait for jobs appended before
\* them (TestJob with addDependency), in runs without errors.
AppendQueued(job) ==
    /\ ~crashed
    /\ Len(m_vspJobs) < MaxQueued
    /\ Becomes(appendJobUnsafe(Manager, job))
    /\ UNCHANGED <<pc, crashed, nSigFinished, nSigStopped, nSigError, nFailed, nStarts, iLeft>>

NextOrder ==
    \/ \E d \in DepLists(Len(m_vspJobs), MaxDeps) : AppendQueued(NewJob(d, FALSE, 0))
    \/ Start
    \/ \E t \in 1..Len(m_vThreads) : ExecBegin(t)
    \/ \E t \in 1..Len(m_vThreads) : ExecEnd(t, 0)
    \/ \E t \in 1..Len(m_vThreads) : HandleJobFinished(t)
    \/ EmitFinished

OrderSpec == Init /\ [][NextOrder]_vars

\* ------------------------------------------------------------ the job's signal
\* The behaviours over jobs without dependencies in which the signal that
\* AbstractJob::exec emits is observed.
ExecEndSignal(t, iErr) ==
    /\ ~crashed
    /\ m_vThreads[t].st = "exec"
    /\ Becomes(execEnd(Manager, t, iErr))
    /\ nFailed' = nFailed + (IF iErr # 0 THEN 1 ELSE 0)
    /\ UNCHANGED <<pc, crashed, nSigFinished, nSigStopped, nSigError, nStarts, iLeft>>

NextExec ==
    \/ AppendJob(NewJob(<<>>, FALSE, 0))
    \/ Start
    \/ Stop
    \/ \E t \in 1..Len(m_vThreads) : ExecBegin(t)
    \/ \E t \in 1..Len(m_vThreads), iErr \in 0..1 : ExecEndSignal(t, iErr)
    \/ \E t \in 1..Len(m_vThreads) : HandleJobFinished(t)
    \/ EmitFinished

ExecSpec == Init /\ [][NextExec]_vars

\* ------------------------------------------------------------ AbstractSessionManager
\* The session manager as one record.  Its slots are connected to the signals
\* of m_jm in its constructor; they run inside the emit, in the thread of the
\* two managers, and change the session manager only.
Session ==
    [m_eStatus |-> sm_eStatus, m_iSessionIndex |-> sm_iSessionIndex,
     m_iFinished |-> sm_iFinished, nSessions |-> sm_nSessions,
     timers |-> sm_timers, emitted |-> <<>>, log |-> sm_log]

\* emit <sig>(..) of the session manager, with the session index it carries
SessionEmit(sm, sig, arg) ==
    [sm EXCEPT !.emitted = Append(@, [sig |-> sig, ind |-> sm.m_iSessionIndex,
                                      arg |-> arg])]

\* AbstractSessionManager::isRunning
SessionIsRunning(sm) == sm.m_eStatus \in {"sRunning", "sPaused"}

\* AbstractSessionManager::handleFinished
SessionHandleFinished(sm) ==
    IF sm.m_eStatus # "sRunning"
    THEN [SessionEmit(sm, "signalError", "jmeImplementationError")
             EXCEPT !.m_eStatus = "sError"]
    ELSE LET s1 == SessionEmit([sm EXCEPT !.m_eStatus = "sPaused"],
                               "signalSessionFinished", "")
             s2 == [s1 EXCEPT !.m_iSessionIndex = @ + 1]
         IN  IF s2.m_iSessionIndex < s2.nSessions
             THEN [s2 EXCEPT !.timers = @ + 1]
             ELSE SessionEmit([s2 EXCEPT !.m_eStatus = "sFinished",
                                         !.log.nSigFinished = @ + 1],
                              "signalFinished", "")

\* AbstractSessionManager::handleError
SessionHandleError(sm, eJME) ==
    [SessionEmit([sm EXCEPT !.m_eStatus = "sError"], "signalError", eJME)
        EXCEPT !.m_iSessionIndex = -1]

\* AbstractSessionManager::handleStopped
SessionHandleStopped(sm) ==
    [SessionEmit([sm EXCEPT !.m_eStatus = "sStopped"], "signalStopped", "")
        EXCEPT !.m_iSessionIndex = -1]

\* a slot that does not count the job
SessionHandleJobFinished_NotCounted(sm) == sm

\* AbstractSessionManager::handleJobFinished
SessionHandleJobFinished(sm) == [sm EXCEPT !.m_iFinished = @ + 1]

\* the slot that the constructor connected to the signal ev of m_jm
SessionSlot(sm, ev) ==
    CASE ev.sig = "signalFinished" -> SessionHandleFinished(sm)
      [] ev.sig = "signalError" -> SessionHandleError(sm, ev.arg)
      [] ev.sig = "signalStopped" -> SessionHandleStopped(sm)
      [] ev.sig = "signalJobFinished" -> SessionHandleJobFinished(sm)
      [] OTHER -> sm

\* the slots run for the signals m_jm emitted, in the order of the emits
RECURSIVE SessionDeliver(_, _)
SessionDeliver(sm, evs) ==
    IF evs = <<>> THEN sm
    ELSE SessionDeliver(SessionSlot(sm, Head(evs)), Tail(evs))

\* initNextSession of the derived class: n jobs are appended to m_jm
\* (SessionManager::initNextSession of the unit tests)
RECURSIVE initNextSession(_, _)
initNextSession(jm, n) ==
    IF n = 0 THEN jm
    ELSE initNextSession(appendJobUnsafe(jm, NewJob(<<>>, FALSE, 0)), n - 1)

\* AbstractSessionManager::startNextSession, where the derived class puts n
\* jobs into the session; allowedErrors() is not overridden.  began: m_jm.start()
\* returned true; torn: m_jm.clear() emptied the table while workers held jobs
\* of it.
startNextSession(jm, sm, n) ==
    IF jm.m_bStop
    THEN [jm |-> jm, sm |-> SessionHandleStopped(sm), began |-> FALSE, torn |-> FALSE]
    ELSE LET jm1 == [clear(jm) EXCEPT !.m_iAllowedErrors = 0]
             jm2 == initNextSession(jm1, n)
             sm1 == [sm EXCEPT !.m_eStatus = "sRunning",
                               !.log.inits = Append(@, sm.m_iSessionIndex),
                               !.log.jobs = @ + n]
             r == startCall(jm2)
         IN  IF ~r.ret
             THEN [jm |-> r.s,
                   sm |-> SessionEmit([sm1 EXCEPT !.m_eStatus = "sError"],
                                      "signalError", "jmeCouldNotStart"),
                   began |-> FALSE, torn |-> BusyThreads(jm) # {}]
             ELSE [jm |-> r.s, sm |-> SessionDeliver(sm1, r.s.emitted),
                   began |-> TRUE, torn |-> BusyThreads(jm) # {}]

\* AbstractSessionManager::start: the managers it leaves and the value returned
SessionStartCall(jm, sm, n) ==
    IF SessionIsRunning(sm)
    THEN [jm |-> jm, sm |-> sm, ret |-> FALSE, began |-> FALSE, torn |-> FALSE]
    ELSE IF sm.nSessions = 0
    THEN [jm |-> jm,
          sm |-> SessionEmit([sm EXCEPT !.m_eStatus = "sFinished",
                                        !.log.nSigFinished = @ + 1],
                             "signalFinished", ""),
          ret |-> TRUE, began |-> FALSE, torn |-> FALSE]
    ELSE LET sm1 == [sm EXCEPT !.m_iSessionIndex = 0, !.m_iFinished = 0,
                               !.m_eStatus = "sPaused"]
             c == startNextSession(jm, sm1, n)
         IN  [jm |-> c.jm, sm |-> c.sm, ret |-> c.sm.m_eStatus = "sRunning",
              began |-> c.began, torn |-> c.torn]

\* the state of the session manager that a step leaves
BecomesSession(sm) ==
    /\ sm_eStatus' = sm.m_eStatus
    /\ sm_iSessionIndex' = sm.m_iSessionIndex
    /\ sm_iFinished' = sm.m_iFinished
    /\ sm_nSessions' = sm.nSessions
    /\ sm_timers' = sm.timers
    /\ sm_emitted' = sm.emitted
    /\ sm_log' = sm.log
    /\ UNCHANGED QueueVars

\* the counters of the job manager's run after a call that may have begun one
RunCounted(c) ==
    IF c.began
    THEN /\ nSigFinished' = CountSig(c.jm.emitted, "signalFinished")
         /\ nSigStopped' = 0
         /\ nSigError' = 0
         /\ nFailed' = 0
    ELSE UNCHANGED <<nSigFinished, nSigStopped, nSigError, nFailed>>

\* a session manager as the derived class and its user set it up: m_iFinished
\* is not initialised by the constructor
InitSession ==
    /\ InitJobManager
    /\ Len(m_vThreads) <= MaxSessionThreads
    /\ m_bReportJobFinish = TRUE
    /\ m_iAllowedErrors = 0
    /\ sm_eStatus = "sFinished"
    /\ sm_iSessionIndex = -1
    /\ sm_iFinished \in 0..1
    /\ sm_nSessions \in 0..MaxSessions
    /\ sm_timers = 0
    /\ sm_emitted = <<>>
    /\ sm_log = NoSessionLog
    /\ m_pQueue = NewJobQueue

\* AbstractSessionManager::start, in the thread of the managers
SessionStart(n) ==
    /\ ~crashed
    /\ pc = "idle"
    /\ SessionIsRunning(Session) \/ sm_log.starts < MaxSessionStarts
    /\ LET sm0 == IF SessionIsRunning(Session)
                  THEN Session
                  ELSE [Session EXCEPT !.log = [NoSessionLog EXCEPT
                                                  !.starts = sm_log.starts + 1]]
           c == SessionStartCall(Manager, sm0, n)
       IN  /\ BecomesJm(c.jm)
           /\ BecomesSession([c.sm EXCEPT !.log.ret = c.ret])
           /\ RunCounted(c)
           /\ crashed' = c.torn
    /\ UNCHANGED <<pc, nStarts, iLeft, nCreated>>

\* AbstractSessionManager::stop
SessionStop ==
    /\ ~crashed
    /\ pc = "idle"
    /\ IF m_eStatus = "sRunning"
       THEN /\ BecomesJm(stop(Manager))
            /\ BecomesSession([Session EXCEPT !.log.stopped = TRUE])
            /\ IF \E i \in StopIndices(Manager) : i >= Len(m_vspJobs)
               THEN crashed' \in BOOLEAN
               ELSE crashed' = FALSE
       ELSE /\ BecomesJm(Manager)
            /\ BecomesSession(SessionHandleStopped([Session EXCEPT !.log.stopped = TRUE]))
            /\ crashed' = FALSE
    /\ UNCHANGED <<pc, nSigFinished, nSigStopped, nSigError, nFailed, nStarts, iLeft, nCreated>>

\* a single-shot timer of handleFinished expires: startNextSession
SessionTimer(n) ==
    /\ ~crashed
    /\ pc = "idle"
    /\ sm_timers > 0
    /\ Len(sm_log.inits) < MaxSessionInits
    /\ LET c == startNextSession(Manager, [Session EXCEPT !.timers = @ - 1], n)
       IN  /\ BecomesJm(c.jm)
           /\ BecomesSession(c.sm)
           /\ RunCounted(c)
           /\ crashed' = c.torn
    /\ UNCHANGED <<pc, nStarts, iLeft, nCreated>>

\* the slot JobManager::handleJobFinished of m_jm for worker t, with the
\* slots of the session manager that its emits run
SessionJobFinished(t) ==
    /\ ~crashed
    /\ pc = "idle"
    /\ m_vThreads[t].st = "done"
    /\ LET s == handleJobFinished(Manager, t)
       IN  /\ BecomesJm(s)
           /\ Counted(s)
           /\ BecomesSession(SessionDeliver(Session, s.emitted))
           /\ pc' = IF s.m_eStatus = "sFinished" THEN "emitFinished" ELSE "idle"
    /\ UNCHANGED <<crashed, nFailed, nStarts, iLeft, nCreated>>

\* emit signalFinished() of m_jm after the unlock, with handleFinished of the
\* session manager
SessionEmitFinished ==
    /\ ~crashed
    /\ pc = "emitFinished"
    /\ LET s == Emit(Manager, "signalFinished", "")
       IN  /\ BecomesJm(s)
           /\ Counted(s)
           /\ BecomesSession(SessionDeliver(Session, s.emitted))
    /\ pc' = "idle"
    /\ UNCHANGED <<crashed, nFailed, nStarts, iLeft, nCreated>>

NextSession ==
    \/ \E n \in 0..MaxSessionJobs : SessionStart(n)
    \/ SessionStop
    \/ \E n \in 0..MaxSessionJobs : SessionTimer(n)
    \/ \E t \in 1..Len(m_vThreads) : ExecBegin(t)
    \/ \E t \in 1..Len(m_vThreads), iErr \in 0..1 : ExecEnd(t, iErr)
    \/ \E t \in 1..Len(m_vThreads) : SessionJobFinished(t)
    \/ SessionEmitFinished

SessionSpec == InitSession /\ [][NextSession]_vars

\* The behaviours of a session manager in which no job body reports an error
\* and stop() is not called.
NextSessionClean ==
    \/ \E n \in 0..MaxSessionJobs : SessionStart(n)
    \/ \E n \in 0..MaxSessionJobs : SessionTimer(n)
    \/ \E t \in 1..Len(m_vThreads) : ExecBegin(t)
    \/ \E t \in 1..Len(m_vThreads) : ExecEnd(t, 0)
    \/ \E t \in 1..Len(m_vThreads) : SessionJobFinished(t)
    \/ SessionEmitFinished

SessionCleanSpec == InitSession /\ [][NextSessionClean]_vars

\* The behaviours of a session manager whose sessions are empty or have more
\* jobs than m_jm has workers, and whose stop() is not called.
NextSessionBatch ==
    \/ \E n \in {0, MaxSessionBatch} : SessionStart(n)
    \/ \E n \in {0, MaxSessionBatch} : SessionTimer(n)
    \/ \E t \in 1..Len(m_vThreads) : ExecBegin(t)
    \/ \E t \in 1..Len(m_vThreads), iErr \in 0..1 : ExecEnd(t, iErr)
    \/ \E t \in 1..Len(m_vThreads) : SessionJobFinished(t)
    \/ SessionEmitFinished

SessionBatchSpec == InitSession /\ [][NextSessionBatch]_vars

\* The behaviours of a session manager whose timer of an earlier start() may
\* expire while the workers of m_jm run the jobs of a later start().  The job
\* bodies report no error.  A worker keeps its job and its job index when
\* m_jm.clear() empties the table; the table is indexed with that index again
\* when the worker's completion is handled.

\* the job index of worker t is inside the job table
JobInTable(t) == m_vThreads[t].m_iJobIndex < Len(m_vspJobs)

\* a single-shot timer of handleFinished expires while m_jm is running and
\* workers hold jobs: startNextSession clears and refills the table under
\* them, and m_jm.start() returns false
SessionTimerBusy(n) ==
    /\ ~crashed
    /\ pc = "idle"
    /\ sm_timers > 0
    /\ Len(sm_log.inits) < MaxSessionInits
    /\ m_eStatus = "sRunning"
    /\ BusyThreads(Manager) # {}
    /\ LET c == startNextSession(Manager, [Session EXCEPT !.timers = @ - 1], n)
       IN  /\ BecomesJm(c.jm)
           /\ BecomesSession(c.sm)
           /\ RunCounted(c)
    /\ crashed' = FALSE
    /\ UNCHANGED <<pc, nStarts, iLeft, nCreated>>

\* JobManager::handleJobFinished for a worker whose job index is outside the
\* table: m_vspJobs[iInd] is undefined, the behaviour is followed no further
SessionJobLost(t) ==
    /\ ~crashed
    /\ pc = "idle"
    /\ m_vThreads[t].st = "done"
    /\ ~JobInTable(t)
    /\ crashed' = TRUE
    /\ BecomesJm(Manager)
    /\ BecomesSession(Session)
    /\ UNCHANGED <<pc, nSigFinished, nSigStopped, nSigError, nFailed, nStarts,
                   iLeft, nCreated>>

NextSessionStale ==
    \/ \E n \in 0..MaxSessionJobs : SessionStart(n)
    \/ SessionStop
    \/ \E n \in 0..MaxSessionJobs : BusyThreads(Manager) = {} /\ SessionTimer(n)
    \/ \E n \in 0..MaxSessionJobs : SessionTimerBusy(n)
    \/ \E t \in 1..Len(m_vThreads) : JobInTable(t) /\ ExecBegin(t)
    \/ \E t \in 1..Len(m_vThreads) : JobInTable(t) /\ ExecEnd(t, 0)
    \/ \E t \in 1..Len(m_vThreads) : JobInTable(t) /\ SessionJobFinished(t)
    \/ \E t \in 1..Len(m_vThreads) : SessionJobLost(t)
    \/ SessionEmitFinished

SessionStaleSpec == InitSession /\ [][NextSessionStale]_vars

\* ------------------------------------------------------------ a JobQueue at work
\* the state a step of the job queue leaves
BecomesQueue(q) ==
    /\ m_pQueue' = q
    /\ UNCHANGED <<m_vspJobs, m_quWaiting, m_vThreads, m_quIdle, m_iStarted,
                   m_iRunning, m_iFinished, m_iErrors, m_iAllowedErrors, m_bStop,
                   m_bReportJobFinish, m_eStatus, m_eError, pc, crashed, emitted,
                   nSigFinished, nSigStopped, nSigError, nFailed, nStarts, iLeft,
                   nCreated, SessionVars>>

\* the caller fills the queue before it is given to a job manager
QueueAppend(code) ==
    /\ m_pQueue.pc = "new"
    /\ Len(m_pQueue.m_vJobs) < MaxSubJobs
    /\ BecomesQueue(queueAppend(m_pQueue, NewSubJob(code)))

\* a worker thread calls exec() of the queue
QueueExecBegin ==
    /\ m_pQueue.pc = "new"
    /\ BecomesQueue(queueExecBegin(m_pQueue))

QueueIterate ==
    /\ m_pQueue.pc = "loop"
    /\ BecomesQueue(queueIterate(m_pQueue))

QueueExecEnd ==
    /\ m_pQueue.pc = "processed"
    /\ BecomesQueue(queueExecEnd(m_pQueue))

\* JobManager::stop calls stop() of the queue from the thread of the manager
QueueStop ==
    /\ m_pQueue.pc # "done"
    /\ ~m_pQueue.m_bStop
    /\ BecomesQueue(queueStop(m_pQueue))

NextQueue ==
    \/ \E code \in -MaxErrorCode..MaxErrorCode : QueueAppend(code)
    \/ QueueExecBegin
    \/ QueueIterate
    \/ QueueExecEnd
    \/ QueueStop

QueueSpec == Init /\ [][NextQueue]_vars

\* ------------------------------------------------------------ observations
Signals(sig) == {k \in 1..Len(emitted) : emitted[k].sig = sig}
JobIndices == 0..(Len(m_vspJobs) - 1)
Job(i) == m_vspJobs[i + 1]
NoBusyThread == BusyThreads(Manager) = {}
\* a job was given to a worker in the step
Dispatched ==
    \E i \in JobIndices :
        /\ i < Len(m_vspJobs')
        /\ m_vspJobs'[i + 1].nAssigned > Job(i).nAssigned

\* ------------------------------------------------------------ claims

\* C1: in a run, from a start() that returns true until the status leaves
\* sRunning, at most one terminal signal (signalFinished, signalStopped,
\* signalError) is emitted.
C1_AtMostOneTerminalSignal == nSigFinished + nSigStopped + nSigError <= 1

\* C2: after a start() that returns true the manager eventually leaves the
\* sRunning status, given that the job bodies return and the completion
\* events are delivered.
C2_RunTerminates ==
    (m_eStatus = "sRunning") ~>
        (m_eStatus # "sRunning" /\ nSigFinished + nSigStopped + nSigError >= 1)

FailedJobs == {i \in JobIndices : Job(i).done /\ Job(i).m_iError # 0}

C4_FinishedCountIsJobCountAtSignal ==
    Signals("signalFinished") # {} => m_iFinished = Len(m_vspJobs)

\* C5: no job is assigned to a worker while a job of its dependency list is
\* unfinished: when a job is assigned, and from then on, every job it depends
\* on is in the table, has isFinished() = true, and its completion has been
\* handled and (with the report flag) reported by signalJobFinished.
C5_DependenciesFinishedBeforeStart ==
    \A b \in JobIndices :
        Job(b).nAssigned > 0 =>
            /\ Job(b).depsAtStart
            /\ \A k \in 1..Len(Job(b).dependsOn) : DepReported(Manager, Job(b).dependsOn[k])

\* C5 witness: a job with a dependency has run and its completion is reported
C5_Witness ==
    \E b \in JobIndices :
        /\ Job(b).dependsOn # <<>>
        /\ Job(b).reported
        /\ Job(b).dependsOn[1] # b


\* C6: after stop() has been called during a run, no waiting job is assigned
\* to a worker for the rest of that run.
C6_NoDispatchAfterStop ==
    [][(m_eStatus = "sRunning" /\ m_bStop) => ~Dispatched]_vars

\* C7: once the number of failed jobs exceeds a budget >= 0 at a completion
\* tick, no waiting job is assigned to a worker for the rest of that run.
C7_NoDispatchAfterTooManyErrors ==
    [][(m_eStatus = "sRunning" /\ m_iAllowedErrors >= 0 /\ m_iErrors > m_iAllowedErrors)
          => ~Dispatched]_vars

\* C8: if the budget is >= 0 and more than allowed-errors job bodies returned
\* with an error in a run that is not stopped, then, once not one job is in
\* flight any more, the run has ended with signalError(jmeTooManyErrors): the
\* status is sError (isFinished() is false), and neither signalFinished nor
\* signalStopped was emitted; every signalError of such a run carries
\* jmeTooManyErrors.
C8_TooManyErrorsEndsInError ==
    (m_iAllowedErrors >= 0 /\ nFailed > m_iAllowedErrors /\ ~m_bStop) =>
        /\ \A k \in Signals("signalError") : emitted[k].arg = "jmeTooManyErrors"
        /\ nSigFinished = 0 /\ nSigStopped = 0
        /\ m_eStatus # "sFinished"
        /\ NoBusyThread => (m_eStatus = "sError" /\ nSigError >= 1)

\* C8 witness: the run has ended in sError with jobs over the budget, and
\* another job had been in flight when the budget was exceeded
C8_Witness ==
    /\ m_iAllowedErrors >= 0 /\ nFailed > m_iAllowedErrors /\ ~m_bStop
    /\ Signals("signalError") # {}
    /\ m_eStatus = "sError"
    /\ m_iFinished > nFailed

\* the situation of C9: jobs are waiting, none of them can start, none is running
NoJobReady ==
    /\ m_quWaiting # <<>>
    /\ \A i \in Range(m_quWaiting) : ~canStart(Manager, i)
    /\ NoBusyThread

\* C9: whenever, during a run, jobs are waiting, no waiting job's canStart()
\* is true and no job is running, the manager emits signalError(jmeNoJobReady)
\* and leaves the sRunning status, in start() as well as in a completion tick:
\* the manager is never left in sRunning in that situation.
C9_NoJobReadyLeavesRunning == NoJobReady => m_eStatus # "sRunning"

\* C10: whenever signalError or signalStopped is emitted, the running counter
\* is 0 and no worker holds a job; the status is sError or sStopped only in
\* such a state.
C10_TerminalOnlyWhenNothingRuns ==
    /\ \A k \in Signals("signalError") \cup Signals("signalStopped") :
          /\ emitted[k].running = 0
          /\ emitted[k].busy = 0
          /\ emitted[k].status \in {"sError", "sStopped"}
    /\ m_eStatus \in {"sError", "sStopped"} => (m_iRunning = 0 /\ NoBusyThread)

\* C10 witness: signalStopped is emitted after two jobs were in flight at once
C10_Witness ==
    /\ Signals("signalStopped") # {}
    /\ m_eStatus = "sStopped"
    /\ m_iFinished >= 2
    /\ m_quWaiting # <<>>

\* every job was assigned at most once; the workers that hold a job hold
\* different jobs of the table, none of which was handled before
AssignedOnce ==
    /\ \A i \in JobIndices : Job(i).nAssigned <= 1
    /\ \A t \in BusyThreads(Manager) :
          /\ m_vThreads[t].m_iJobIndex \in JobIndices
          /\ ~Job(m_vThreads[t].m_iJobIndex).done
          /\ Job(m_vThreads[t].m_iJobIndex).nAssigned = 1
          /\ \A u \in BusyThreads(Manager) :
                u # t => m_vThreads[u].m_iJobIndex # m_vThreads[t].m_iJobIndex

\* the jobs whose completion is handled in the step
HandledInStep ==
    {i \in JobIndices : /\ ~Job(i).done
                        /\ i < Len(m_vspJobs')
                        /\ m_vspJobs'[i + 1].done}

\* C11: between two clear() calls every job of the table is assigned to a
\* worker at most once, is never bound to two workers at a time, is not run
\* again by a later start(), and each increment of finishedCount() is the
\* completion of one job that was not counted before.
C11_EveryJobAccountedOnce ==
    [][/\ AssignedOnce'
       /\ m_iFinished' = m_iFinished + 1 => Cardinality(HandledInStep) = 1
       /\ HandledInStep # {} => m_iFinished' = m_iFinished + 1]_vars

\* C11 witness: a second start() has assigned a job while the table holds a
\* job of the run before
C11_Witness ==
    /\ nStarts = 2
    /\ BusyThreads(Manager) # {}
    /\ \E i \in JobIndices : Job(i).done
    /\ AssignedOnce

\* the jobs bound to a worker that has not been handled yet
BoundJobs == {m_vThreads[t].m_iJobIndex : t \in BusyThreads(Manager)}

\* the number of places job i is in: the waiting queue (once per entry), a
\* busy worker (once per worker), the jobs whose completion was handled
Places(i) ==
    Cardinality({k \in 1..Len(m_quWaiting) : m_quWaiting[k] = i})
  + Cardinality({t \in BusyThreads(Manager) : m_vThreads[t].m_iJobIndex = i})
  + (IF Job(i).done THEN 1 ELSE 0)

\* C12: between the operations, each index of the job table is in exactly
\* one of: the waiting queue, bound to a busy worker, handled as terminated;
\* the queue and the workers hold indices of the table only; and the running
\* counter is the number of busy workers, which is threadCount() minus the
\* length of the idle queue.
C12_JobsPartitionedAndRunningCounted ==
    /\ \A i \in JobIndices : Places(i) = 1
    /\ Range(m_quWaiting) \cup BoundJobs \subseteq JobIndices
    /\ m_iRunning = Cardinality(BusyThreads(Manager))
    /\ Cardinality(BusyThreads(Manager)) = Len(m_vThreads) - Len(m_quIdle)

\* C12 witness: during a run one job waits, one is bound to a worker, one is
\* handled, and a worker is idle
C12_Witness ==
    /\ m_eStatus = "sRunning"
    /\ m_quWaiting # <<>>
    /\ BoundJobs # {}
    /\ \E i \in JobIndices : Job(i).done
    /\ m_quIdle # <<>>
    /\ \A i \in JobIndices : Places(i) = 1

\* C13: in every reachable state the counters satisfy
\* started >= finished >= 0 and running = started - finished.
C13_CountersConsistent ==
    /\ m_iStarted >= m_iFinished
    /\ m_iFinished >= 0
    /\ m_iRunning = m_iStarted - m_iFinished

\* the manager's thread is inside start(), between two of its updates
InsideStart == pc = "start"

\* C14: the updates of start(), clear(), setThreads(), appendJob(),
\* addThreads(), stop() and handleJobFinished() are made with the mutex held,
\* so that an appendJob() of another thread never comes between the updates
\* of one of them: while start() is between two updates no job is appended.
C14_NoAppendInsideOperation ==
    [][InsideStart => Len(m_vspJobs') = Len(m_vspJobs)]_vars

\* C15: if no job reports an error, stop() is never called and every job can
\* start once its dependencies, jobs of the same table, are finished, then a
\* run that start() has begun goes on to signalFinished: while the status is
\* sRunning a job is in flight (so the run cannot wait for ever), when
\* signalFinished is emitted finishedCount() = jobCount(), and neither
\* signalError nor signalStopped is emitted.
C15_RunWithoutFaultsFinishes ==
    /\ m_eStatus = "sRunning" => ~NoBusyThread
    /\ Signals("signalFinished") # {} => m_iFinished = Len(m_vspJobs)
    /\ nSigError = 0 /\ nSigStopped = 0

\* stop() was called in a run in which jobs were in flight and no job has
\* reported an error
StoppedRun ==
    /\ m_bStop
    /\ nStarts >= 1
    /\ m_eStatus \in {"sRunning", "sStopped"}
    /\ m_eError = "jmeNoError"
    /\ nFailed = 0

Drained(t) ==
    LET iInd == m_vThreads[t].m_iJobIndex
    IN  (Len(m_vspJobs) + 1)..(Len(m_vspJobs) + Job(iInd).spawn)

\* at the end of the drain of thread t's completion tick the jobs returned by
\* nextSpawnedJob() are, in the order returned, the tail of the job table and
\* of the waiting queue, and they are marked as spawned
DrainAppendsInOrder(t) ==
    LET iInd == m_vThreads[t].m_iJobIndex
        r == drainSpawned(Manager, iInd)
    IN  /\ Len(r.m_vspJobs) = Len(m_vspJobs) + Job(iInd).spawn
        /\ \A j \in 1..Len(m_vspJobs) :
             /\ r.m_vspJobs[j].m_bSpawned = m_vspJobs[j].m_bSpawned
             /\ r.m_vspJobs[j].parent = m_vspJobs[j].parent
        /\ \A j \in Drained(t) :
             /\ r.m_vspJobs[j].m_bSpawned
             /\ r.m_vspJobs[j].parent = iInd
             /\ r.m_vspJobs[j].ord = j - Len(m_vspJobs)
        /\ r.m_quWaiting =
             m_quWaiting \o [n \in 1..Job(iInd).spawn |-> Len(m_vspJobs) + n - 1]

\* isSpawned() is true for exactly the jobs that came from nextSpawnedJob()
SpawnedFlagsRight ==
    \A i \in JobIndices : Job(i).m_bSpawned <=> Job(i).parent >= 0

\* C17: at the completion tick of a job every job its nextSpawnedJob() returns
\* is appended, in the order returned, to the tail of the job table and of the
\* waiting queue with isSpawned() = true; the table of the completion step
\* grows by exactly these jobs; jobs given to appendJob() keep isSpawned() =
\* false; and signalFinished is not emitted while a spawned job of the table
\* has not terminated.
C17_SpawnedJobsAppendedAndAwaited ==
    [][/\ \A t \in 1..Len(m_vThreads) :
            m_vThreads[t].st = "done" => DrainAppendsInOrder(t)
       /\ \A i \in HandledInStep :
            /\ Len(m_vspJobs') = Len(m_vspJobs) + Job(i).spawn
            /\ \A j \in (Len(m_vspJobs) + 1)..Len(m_vspJobs') :
                 /\ m_vspJobs'[j].m_bSpawned
                 /\ m_vspJobs'[j].parent = i
                 /\ m_vspJobs'[j].ord = j - Len(m_vspJobs)
       /\ SpawnedFlagsRight'
       /\ Signals("signalFinished")' # {} =>
            \A j \in 1..Len(m_vspJobs') :
                m_vspJobs'[j].m_bSpawned => m_vspJobs'[j].done]_vars

\* a job returned two jobs from nextSpawnedJob(), they follow each other in the
\* table after a job given to appendJob(), and signalFinished was emitted when
\* all of them had terminated
C17_Witness ==
    /\ Signals("signalFinished") # {}
    /\ \A i \in JobIndices : Job(i).done
    /\ \E i, j \in JobIndices :
         /\ Job(i).parent = -1 /\ ~Job(i).m_bSpawned
         /\ j + 1 \in JobIndices
         /\ Job(j).parent = i /\ Job(j).ord = 1 /\ Job(j).m_bSpawned
         /\ Job(j + 1).parent = i /\ Job(j + 1).ord = 2 /\ Job(j + 1).m_bSpawned

\* C18: start() called while the status is sRunning returns false and leaves
\* the job table, the waiting queue, the workers and the idle queue, the
\* counters, the stop flag, the last error and the status as they were, emits
\* nothing and starts no job.
C18_StartWhileRunningChangesNothing ==
    m_eStatus = "sRunning" =>
        /\ ~startCall(Manager).ret
        /\ startCall(Manager).s = Manager

\* the manager is running with a job waiting and a worker idle: a start()
\* that went on would change the state
C18_Witness ==
    /\ m_eStatus = "sRunning"
    /\ pc = "idle" /\ ~crashed
    /\ m_quWaiting # <<>> /\ m_quIdle # <<>>
    /\ BusyThreads(Manager) # {}
    /\ start(Manager) # Manager

\* a call of start() that began a run was the step
StartedInStep == nStarts' = nStarts + 1

\* C19: start() on a manager whose job table is empty, freshly constructed or
\* after clear(), returns true, emits signalFinished exactly once inside the
\* call and nothing else, and leaves jobCount() = 0, finishedCount() = 0,
\* isRunning() = false and isFinished() = true.
C19_StartOnEmptyTableFinishesAtOnce ==
    [][/\ (m_vspJobs = <<>> /\ m_eStatus # "sRunning") => startCall(Manager).ret
       /\ (m_vspJobs = <<>> /\ StartedInStep) =>
            /\ Len(emitted') = 1
            /\ emitted'[1].sig = "signalFinished"
            /\ nSigFinished' = 1
            /\ pc' = "idle"
            /\ Len(m_vspJobs') = 0
            /\ m_iFinished' = 0
            /\ m_eStatus' # "sRunning"
            /\ m_eStatus' = "sFinished"]_vars

\* start() has just returned from an empty table that clear() left after a run
C19_Witness ==
    /\ nStarts = 2
    /\ m_vspJobs = <<>>
    /\ Signals("signalFinished") # {}
    /\ \E t \in 1..Len(m_vThreads) : m_vThreads[t].m_iJobIndex >= 0
    /\ m_iFinished = 0 /\ m_eStatus = "sFinished"

\* clear() was the step: the table was not empty and is empty now
ClearedInStep == m_vspJobs # <<>> /\ m_vspJobs' = <<>>

\* C20: after clear() on an idle manager the job table and the waiting queue
\* are empty and all counters are reset, jobCount() = 0, finishedCount() = 0,
\* started = 0 and running = 0, while the workers and the idle queue are as
\* they were.
C20_ClearResetsTableAndCounters ==
    [][ClearedInStep =>
          /\ m_quWaiting' = <<>>
          /\ Len(m_vspJobs') = 0
          /\ m_iFinished' = 0
          /\ m_iStarted' = 0
          /\ m_iRunning' = 0
          /\ m_vThreads' = m_vThreads
          /\ m_quIdle' = m_quIdle]_vars

\* stop() was the step: the stop flag of the manager was raised
StopInStep == ~m_bStop /\ m_bStop'

\* C21: if stop() is called while the manager is idle (status not sRunning,
\* no job in flight), the manager goes to sStopped in the call itself and
\* emits signalStopped, without a completion tick.
C21_StopWhileIdleStopsAtOnce ==
    [][(StopInStep /\ m_eStatus # "sRunning" /\ NoBusyThread /\ ~crashed') =>
          /\ m_eStatus' = "sStopped"
          /\ \E k \in 1..Len(emitted') : emitted'[k].sig = "signalStopped"]_vars

\* job j was given to a worker in the step while job i, appended before it,
\* stayed in the waiting queue although its canStart() is true
Overtaken(i, j) ==
    /\ i < j
    /\ j < Len(m_vspJobs') /\ m_vspJobs'[j + 1].nAssigned > Job(j).nAssigned
    /\ i \in Range(m_quWaiting) /\ i \in Range(m_quWaiting')
    /\ canStart(Manager', i)

\* C22: at every dispatch step, if jobs A and B are both in the waiting queue
\* with canStart() true and A was appended before B, A is assigned to a worker
\* before B, whatever blocked jobs earlier dispatch steps rotated to the tail.
C22_ReadyJobsDispatchedInAppendOrder ==
    [][\A i, j \in JobIndices : ~Overtaken(i, j)]_vars

\* C23: with the report-job-finish flag set, signalJobFinished is emitted for
\* exactly the jobs that finished processing successfully, once for each, and
\* never for a job that terminated with an error code or was stopped; with the
\* flag cleared it is never emitted.
C23_JobFinishReportedForSuccessOnly ==
    /\ \A k \in Signals("signalJobFinished") :
         /\ m_bReportJobFinish
         /\ emitted[k].arg \in JobIndices
         /\ Job(emitted[k].arg).m_iError = 0
         /\ ~Job(emitted[k].arg).m_bStop
         /\ Job(emitted[k].arg).m_bFinished
    /\ Cardinality(Signals("signalJobFinished")) <= 1
    /\ \A i \in JobIndices :
         /\ Job(i).reported => m_bReportJobFinish
         /\ (m_bReportJobFinish /\ Job(i).done /\ Job(i).m_bFinished) => Job(i).reported

\* C24: in every reachable state, for every job, isFinished() = true implies
\* errorCode() = 0 and isStopped() = false, under every interleaving of
\* exec(), cleanup(), AbstractJob::stop() and JobManager::stop().
C24_FinishedJobHasNoErrorAndIsNotStopped ==
    \A i \in JobIndices :
        Job(i).m_bFinished => (Job(i).m_iError = 0 /\ ~Job(i).m_bStop)

\* C25: a worker's jobIndex() is the table index of the job bound to it while
\* the worker is busy, and -1 whenever the worker is idle, before its first
\* assignment as well as after the completion of its job has been handled.
C25_JobIndexIsBoundJobOrMinusOne ==
    \A t \in 1..Len(m_vThreads) :
        IF t \in BusyThreads(Manager)
        THEN /\ m_vThreads[t].m_iJobIndex \in JobIndices
             /\ Job(m_vThreads[t].m_iJobIndex).nAssigned >= 1
             /\ ~Job(m_vThreads[t].m_iJobIndex).done
        ELSE m_vThreads[t].m_iJobIndex = -1

\* exec() began on worker t in the step
ExecBegan(t) ==
    /\ t <= Len(m_vThreads') /\ m_vThreads[t].st = "started" /\ m_vThreads'[t].st = "exec"

\* exec() ended on worker t in the step
ExecEnded(t) ==
    /\ t <= Len(m_vThreads') /\ m_vThreads[t].st = "exec" /\ m_vThreads'[t].st = "done"

\* the signals of the job with table index i among the signals of the step
JobSignals(i) ==
    {k \in 1..Len(emitted') :
        /\ emitted'[k].arg = i
        /\ emitted'[k].sig \in {"AbstractJob::signalError", "AbstractJob::signalStopped",
                                "AbstractJob::signalFinished"}}

\* C26: every call of AbstractJob::exec() resets the cancel flag and the error
\* code, runs process() once, and then emits exactly one of signalError,
\* signalStopped, signalFinished: signalError if the error code is not zero,
\* otherwise signalStopped if the cancel flag is set, otherwise signalFinished.
C26_ExecEmitsOneSignal ==
    [][\A t \in 1..Len(m_vThreads) :
          LET i == m_vThreads[t].m_iJobIndex
          IN  /\ ExecBegan(t) =>
                   /\ ~m_vspJobs'[i + 1].m_bStop
                   /\ m_vspJobs'[i + 1].m_iError = 0
              /\ ExecEnded(t) =>
                   /\ Cardinality(JobSignals(i)) = 1
                   /\ \A k \in JobSignals(i) :
                        emitted'[k].sig =
                            IF m_vspJobs'[i + 1].m_iError # 0
                            THEN "AbstractJob::signalError"
                            ELSE IF m_vspJobs'[i + 1].m_bStop
                            THEN "AbstractJob::signalStopped"
                            ELSE "AbstractJob::signalFinished"]_vars

\* a job whose process() reported an error after stop() was called has
\* emitted signalError
C26_Witness ==
    \E k \in 1..Len(emitted) :
        /\ emitted[k].sig = "AbstractJob::signalError"
        /\ emitted[k].arg \in JobIndices
        /\ Job(emitted[k].arg).m_bStop
        /\ Job(emitted[k].arg).m_iError # 0

\* start() of the session manager was called and went on with sessions to run
SessionsStarted == sm_log.starts >= 1 /\ sm_nSessions >= 1

\* something is left that takes the sessions further: a job in flight, the
\* emit of m_jm's signalFinished, or a timer of handleFinished
SessionGoesOn ==
    \/ ~NoBusyThread
    \/ pc = "emitFinished"
    \/ sm_timers > 0

\* C27: for a session manager with N >= 1 sessions in which no job fails and
\* stop() is never called, start() leads to the status sFinished with
\* currentSession() = N and finishedJobs() equal to the number of jobs of all
\* N sessions, and signalFinished of the session manager is emitted exactly
\* once: while the status is not sFinished the sessions go on, no other
\* terminal status is reached, and at sFinished the counts are as said.
C27_SessionsRunToFinished ==
    SessionsStarted =>
        /\ sm_eStatus \in {"sRunning", "sPaused", "sFinished"}
        /\ sm_eStatus # "sFinished" =>
             /\ SessionGoesOn
             /\ sm_log.nSigFinished = 0
        /\ sm_eStatus = "sFinished" =>
             /\ sm_iSessionIndex = sm_nSessions
             /\ sm_iFinished = sm_log.jobs
             /\ sm_log.nSigFinished = 1
             /\ sm_log.inits = [k \in 1..sm_nSessions |-> k - 1]

\* two sessions of two jobs each have run to the end
C27_Witness ==
    /\ SessionsStarted
    /\ sm_nSessions = 2
    /\ sm_eStatus = "sFinished"
    /\ sm_iSessionIndex = 2
    /\ sm_iFinished = 4
    /\ sm_log.nSigFinished = 1
    /\ \E k \in 1..Len(sm_emitted) : sm_emitted[k].sig = "signalFinished"

\* the step is or contains a call of start() that went on to the sessions
SessionStartInStep == sm_log.starts' # sm_log.starts

\* the indices initNextSession() was invoked for since the last start() and
\* before the step
InitsBefore == IF SessionStartInStep THEN <<>> ELSE sm_log.inits

\* the jobs initNextSession() appended since the last start() and before the step
JobsBefore == IF SessionStartInStep THEN 0 ELSE sm_log.jobs

\* initNextSession() is invoked in the step
InitInStep == Len(sm_log.inits') > Len(InitsBefore)

\* C28: within one start() of the session manager initNextSession() is
\* invoked for the session indices 0, 1, ..., N-1 in increasing order, each at
\* most once; a session after the first is populated and started only after
\* m_jm emitted signalFinished for the session before it (which left the
\* session manager sPaused with m_jm sFinished and no job in flight) and the
\* job table was cleared, so that the table then holds the jobs of the new
\* session only.
C28_SessionsInitialisedInOrder ==
    [][InitInStep =>
         /\ sm_log.inits' = Append(InitsBefore, Len(InitsBefore))
         /\ Len(InitsBefore) < sm_nSessions
         /\ Len(InitsBefore) >= 1 =>
              /\ sm_eStatus = "sPaused"
              /\ m_eStatus = "sFinished"
              /\ NoBusyThread
         /\ Len(m_vspJobs') = sm_log.jobs' - JobsBefore
         /\ ~crashed']_vars

\* start() of the session manager can be called in this state
SessionStartCallable == ~crashed /\ pc = "idle"

\* C29: AbstractSessionManager::start() returns false when sessionCount() is
\* 0, when the session manager is already running (sRunning or sPaused), or
\* when m_jm could not be started; it returns true only if the first session
\* was successfully started.
C29_StartReturnsFalseUnlessFirstSessionStarted ==
    SessionStartCallable =>
        \A n \in 0..MaxSessionJobs :
            LET c == SessionStartCall(Manager, Session, n)
            IN  /\ sm_nSessions = 0 => ~c.ret
                /\ SessionIsRunning(Session) => ~c.ret
                /\ c.ret => /\ c.began
                            /\ c.sm.log.inits # <<>>
                            /\ c.sm.m_eStatus = "sRunning"

\* stop() of the session manager was called since the last start() that went
\* on to the sessions, and the step is not such a start()
StoppedSinceStart == sm_log.stopped /\ sm_log'.starts = sm_log.starts

\* C30: after stop() is called on the session manager in any of its states
\* (sRunning, sPaused with a timer of handleFinished pending, or idle) no
\* further session is initialised or started unless start() is called again,
\* and once m_jm is at rest the status of the session manager is sStopped.
C30_NoSessionAfterStop ==
    [][StoppedSinceStart =>
         /\ sm_log'.inits = sm_log.inits
         /\ (NoBusyThread /\ pc = "idle" /\ ~crashed) => sm_eStatus = "sStopped"]_vars

\* the signalError signals that the session manager emits in the step for an
\* error m_jm ended the session with
SessionErrorsInStep ==
    IF sm_emitted' = sm_emitted THEN {}
    ELSE {k \in 1..Len(sm_emitted') :
             /\ sm_emitted'[k].sig = "signalError"
             /\ sm_emitted'[k].arg \in {"jmeTooManyErrors", "jmeNoJobReady"}}

\* C31: when m_jm ends a session with a terminal error, the session manager
\* enters the status sError, every signalError it emits carries the index of
\* the session in which the error occurred (the session initNextSession() was
\* last invoked for) together with the error kind of m_jm, and no later
\* session is initialised or started.  Stated for the runs in which stop() of
\* the session manager is not called.
C31_ManagerErrorEndsSessions ==
    [][~sm_log'.stopped =>
         /\ \A k \in SessionErrorsInStep :
                /\ sm_eStatus' = "sError"
                /\ sm_log'.inits # <<>>
                /\ sm_emitted'[k].ind = sm_log'.inits[Len(sm_log'.inits)]
                /\ sm_emitted'[k].ind \in 0..(sm_nSessions - 1)
                /\ sm_emitted'[k].arg = m_eError'
         /\ (sm_eStatus = "sError" /\ ~SessionStartInStep) =>
                sm_log'.inits = sm_log.inits]_vars

\* the sub-job of the queue whose process() was the k-th to be called
QueueRan(k) == m_pQueue.m_vJobs[m_pQueue.ran[k] + 1]

\* C32: JobQueue::process() runs its sub-jobs in append order, each at most
\* once; as soon as a sub-job has set a non-zero error code no later sub-job
\* is run and the error code of the JobQueue is that of the sub-job, so that
\* the JobQueue terminates with signalError.
C32_QueueStopsAtFirstFailedSubJob ==
    LET n == Len(m_pQueue.ran)
    IN  /\ m_pQueue.ran = [k \in 1..n |-> k - 1]
        /\ \A k \in 1..n :
               QueueRan(k).code # 0 =>
                   /\ k = n
                   /\ m_pQueue.m_iError = QueueRan(k).code
                   /\ m_pQueue.pc = "done" =>
                          m_pQueue.signal = "AbstractJob::signalError"

\* job a has returned from its body with an error that the error budget covers
FailedWithinBudget(a) ==
    /\ a \in JobIndices
    /\ Job(a).done
    /\ Job(a).m_iError # 0
    /\ ~TooManyErrors(Manager)

\* job b depends on a job that has failed within the budget
WaitsForFailed(b) ==
    \E k \in 1..Len(Job(b).dependsOn) : FailedWithinBudget(Job(b).dependsOn[k])

StartableWaiting(s) ==
    {k \in 1..Len(s.m_quWaiting) : canStart(s, s.m_quWaiting[k])}

\* the jobs that are assigned to a worker of manager s
InFlight(s) == {s.m_vThreads[t].m_iJobIndex : t \in BusyThreads(s)}

\* a call of addThreads(iT) is made during a run that is neither stopped nor
\* over its error budget
AddThreadsDispatches(s) ==
    s.m_eStatus = "sRunning" /\ ~s.m_bStop /\ ~TooManyErrors(s)

\* C34: the number of jobs in flight never exceeds threadCount();
\* addThreads(n) raises threadCount() by n, and during a run that is neither
\* stopped nor over its error budget it hands one startable waiting job to a
\* worker for each new worker while such jobs exist, so that the jobs in
\* flight can exceed the former number of workers.  Stated in every reachable
\* state for the counter m_iRunning, for the busy workers, and for the
\* result of every call addThreads(iT) that the state admits.
C34_InFlightWithinThreadCount ==
    /\ m_iRunning <= Len(m_vThreads)
    /\ Cardinality(BusyThreads(Manager)) <= Len(m_vThreads)
    /\ ~crashed =>
         \A iT \in 1..(MaxThreads - Len(m_vThreads)) :
            LET s == addThreads(Manager, iT)
                nReady == Cardinality(StartableWaiting(Manager))
                nNew == IF iT < nReady THEN iT ELSE nReady
            IN  /\ Len(s.m_vThreads) = Len(m_vThreads) + iT
                /\ s.m_iRunning <= Len(s.m_vThreads)
                /\ AddThreadsDispatches(Manager) =>
                     /\ s.m_iRunning = m_iRunning + nNew
                     /\ Cardinality(BusyThreads(s)) =
                            Cardinality(BusyThreads(Manager)) + nNew
                     /\ InFlight(s) \ InFlight(Manager) \subseteq
                            {m_quWaiting[k] : k \in StartableWaiting(Manager)}

\* all workers of a run are busy, and one more worker would take a waiting
\* job at once: more jobs in flight than there were workers
C34_Witness ==
    /\ ~crashed /\ AddThreadsDispatches(Manager)
    /\ Len(m_vThreads) < MaxThreads
    /\ m_iRunning = Len(m_vThreads)
    /\ addThreads(Manager, 1).m_iRunning > Len(m_vThreads)

\* worker t holds a job whose body has not returned, before and after the step
BodyPending(t) ==
    /\ t <= Len(m_vThreads) /\ t <= Len(m_vThreads')
    /\ m_vThreads[t].st \in {"started", "exec"}
    /\ m_vThreads'[t].st \in {"started", "exec"}
    /\ m_vThreads'[t].m_iJobIndex = m_vThreads[t].m_iJobIndex
    /\ m_vThreads[t].m_iJobIndex < Len(m_vspJobs)
    /\ m_vThreads[t].m_iJobIndex < Len(m_vspJobs')

\* the cancel flag of the job that worker t holds
CancelFlag(t) == m_vspJobs[m_vThreads[t].m_iJobIndex + 1].m_bStop

\* C35: if stop() is called after a job has been assigned to a worker and
\* before its completion is handled, the job's cancel flag is true from that
\* call until the body has returned, also when stop() comes before the worker
\* thread has begun exec().  Stated for every step that leaves the body of a
\* worker's job pending: a stop() of the step sets the flag, and a flag that
\* is set stays set.
C35_CancelFlagHeldUntilBodyReturns ==
    [][\A t \in 1..MaxThreads :
          (BodyPending(t) /\ ~crashed' /\ (StopInStep \/ CancelFlag(t))) =>
              CancelFlag(t)']_vars

\* stop() has been called in the run that is going on, and the failed jobs
\* counted under the mutex are within the error budget
StopBeforeBudget ==
    m_eStatus = "sRunning" /\ m_bStop /\ ~TooManyErrors(Manager)

\* C36: when stop() is called and the failed jobs exceed the error budget in
\* one run, the terminal signal is that of the condition established first
\* under the mutex: signalStopped if stop() came before the budget was
\* exceeded, signalError(jmeTooManyErrors) otherwise.  Stated for the steps
\* of a run in which stop() has been called while the budget was kept: such
\* a step does not emit signalError(jmeTooManyErrors).
C36_FirstTerminalConditionWins ==
    [][(StopBeforeBudget /\ ~crashed' /\ nSigError' > nSigError) =>
          \A k \in 1..Len(emitted') :
              emitted'[k].sig = "signalError" =>
                  emitted'[k].arg # "jmeTooManyErrors"]_vars

\* C37: stop() sets the cancel flag of exactly the jobs that are executing on
\* a worker: it never changes the flag of a job whose completion has been
\* handled and never indexes the job table outside 0..jobCount()-1, also
\* after clear() or after a finished run.  Stated in every reachable state
\* for the call stop() made there: the indices it reads are inside the
\* table, every job on a busy worker gets the flag, and a job whose flag
\* changes is on a busy worker and its completion is not handled.
C37_StopFlagsExactlyExecutingJobs ==
    ~crashed =>
        /\ StopIndices(Manager) \subseteq JobIndices
        /\ \A i \in JobIndices :
              /\ i \in InFlight(Manager) => stop(Manager).m_vspJobs[i + 1].m_bStop
              /\ stop(Manager).m_vspJobs[i + 1].m_bStop # Job(i).m_bStop =>
                    i \in InFlight(Manager) /\ ~Job(i).done

\* C38: AbstractSessionManager::start() returns true whenever the session
\* manager was not running, sessionCount() > 0 and the start() of m_jm for
\* session 0 returned true, for every number of jobs that initNextSession()
\* puts into session 0, zero included.  Stated in every state in which
\* start() can be called, for the call made there with a session 0 of n jobs.
C38_StartReturnsTrueWhenFirstSessionBegan ==
    SessionStartCallable =>
        \A n \in 0..MaxSessionJobs :
            LET c == SessionStartCall(Manager, Session, n)
            IN  (~SessionIsRunning(Session) /\ sm_nSessions > 0 /\ c.began) =>
                    c.ret

\* C39: the session manager never emits signalError with
\* jmeImplementationError: handleFinished() is never entered while the status
\* of the session manager differs from sRunning, under any sequence of
\* start() and stop() calls, timer expiries and events of m_jm.
C39_NoImplementationError ==
    \A k \in 1..Len(sm_emitted) :
        sm_emitted[k].sig = "signalError" =>
            sm_emitted[k].arg # "jmeImplementationError"

\* C40: every external signal of the JobManager (signalFinished,
\* signalJobFinished, signalStopped, signalError, signalProgress) is emitted
\* while the emitting thread does not hold m_mutex, so that a directly
\* connected slot can call appendJob(), stop(), addThreads() or
\* threadsRunningCount() without blocking for ever on the mutex.  Stated for
\* the signals of every step: none of them was emitted with the mutex held.
C40_SignalsEmittedUnlocked ==
    \A k \in 1..Len(emitted) : ~emitted[k].locked

=============================================================================
